---- MODULE Spec2Model ----
(***************************************************************************)
(* Bencode codec (src/src/bencode.rs) and the torrent metadata extractor   *)
(* (src/src/torrent.rs) of rust-bittorrent.                                *)
(*                                                                         *)
(* A byte is a one-character string ("d", "4", ":"); the string "xFF"      *)
(* stands for the byte 0xFF, which never occurs in valid UTF-8.  A byte    *)
(* slice is a sequence of bytes.  The nom combinators the parser is built  *)
(* from (tag, is_not, take, alt, delimited, tuple, many0, fold_many0) are  *)
(* modelled by what their "complete" versions do.                          *)
(***************************************************************************)
EXTENDS Integers, Sequences, FiniteSets, TLC

\* ------------------------------------------------------------------------
\* Bounds of the model
\* ------------------------------------------------------------------------

\* Width of the signed integer type.  The program uses i64; TLC's integers
\* are 32-bit, so the type is modelled at a reduced width with the same
\* checked arithmetic.
IntBits == 8

\* Longest raw byte sequence enumerated as parser input.
MaxLen == 4

\* Largest number of nodes of a generated BencodeValue tree.
MaxNodes == 3

\* Deepest nesting of open containers in front of a probed token.
MaxCtxDepth == 2

I64_MIN == -(2 ^ (IntBits - 1))
I64_MAX == (2 ^ (IntBits - 1)) - 1

\* ------------------------------------------------------------------------
\* Bytes
\* ------------------------------------------------------------------------

DigitBytes == {"0", "1", "2", "3", "4", "5", "6", "7", "8", "9"}

DigitValue(c) ==
    CASE c = "0" -> 0 [] c = "1" -> 1 [] c = "2" -> 2 [] c = "3" -> 3
      [] c = "4" -> 4 [] c = "5" -> 5 [] c = "6" -> 6 [] c = "7" -> 7
      [] c = "8" -> 8 [] c = "9" -> 9

DigitByte(d) ==
    CASE d = 0 -> "0" [] d = 1 -> "1" [] d = 2 -> "2" [] d = 3 -> "3"
      [] d = 4 -> "4" [] d = 5 -> "5" [] d = 6 -> "6" [] d = 7 -> "7"
      [] d = 8 -> "8" [] d = 9 -> "9"

Drop(s, n) == SubSeq(s, n + 1, Len(s))
Take(s, n) == SubSeq(s, 1, n)

\* ------------------------------------------------------------------------
\* BencodeValue and the parser's results
\* ------------------------------------------------------------------------

Integer(n) == [t |-> "Integer", n |-> n]
ByteString(bs) == [t |-> "ByteString", bs |-> bs]
List(xs) == [t |-> "List", xs |-> xs]
\* An IndexMap is its entries <<key, value>> in iteration order, keys unique.
Dict(kv) == [t |-> "Dict", kv |-> kv]

Nom(input, kind) == [name |-> "Nom", input |-> input, kind |-> kind]
InvalidPrefixNumber == [name |-> "InvalidPrefixNumber", input |-> <<>>, kind |-> "-"]
InvalidByteString == [name |-> "InvalidByteString", input |-> <<>>, kind |-> "-"]

Ok(rest, value) == [tag |-> "Ok", rest |-> rest, value |-> value]
Error(e) == [tag |-> "Error", err |-> e]
Failure(e) == [tag |-> "Failure", err |-> e]

\* ------------------------------------------------------------------------
\* nom combinators (bytes::complete)
\* ------------------------------------------------------------------------

tag(t, input) ==
    IF Len(input) >= Len(t) /\ Take(input, Len(t)) = t
    THEN Ok(Drop(input, Len(t)), t)
    ELSE Error(Nom(input, "Tag"))

\* Index of the first byte of input that is in arr, 0 when there is none.
RECURSIVE FindToken(_, _, _)
FindToken(arr, input, i) ==
    IF i > Len(input) THEN 0
    ELSE IF input[i] \in arr THEN i
    ELSE FindToken(arr, input, i + 1)

is_not(arr, input) ==
    LET p == FindToken(arr, input, 1) IN
    IF p = 1 THEN Error(Nom(input, "IsNot"))
    ELSE IF p = 0
    THEN IF Len(input) = 0 THEN Error(Nom(input, "IsNot"))
         ELSE Ok(<<>>, input)
    ELSE Ok(Drop(input, p - 1), Take(input, p - 1))

\* Mutant of take: a count beyond the end takes what is left.
take_clamped(count, input) ==
    IF count > Len(input) THEN Ok(<<>>, input)
    ELSE Ok(Drop(input, count), Take(input, count))

take(count, input) ==
    IF count > Len(input) THEN Error(Nom(input, "Eof"))
    ELSE Ok(Drop(input, count), Take(input, count))

\* ------------------------------------------------------------------------
\* bytes_to_i64: std::str::from_utf8 followed by str::parse::<i64>
\* ------------------------------------------------------------------------

from_utf8_ok(bytes) == \A i \in 1..Len(bytes) : bytes[i] # "xFF"

\* The digit loop of i64::from_str: checked_mul by 10, then checked_add of
\* the digit (checked_sub when the literal is negative).
RECURSIVE FromStrDigits(_, _, _)
FromStrDigits(digits, acc, positive) ==
    IF digits = <<>> THEN [ok |-> TRUE, n |-> acc]
    ELSE IF Head(digits) \notin DigitBytes THEN [ok |-> FALSE, n |-> 0]
    ELSE LET mul == acc * 10
             x == DigitValue(Head(digits))
             nxt == IF positive THEN mul + x ELSE mul - x
         IN IF mul > I64_MAX \/ mul < I64_MIN THEN [ok |-> FALSE, n |-> 0]
            ELSE IF nxt > I64_MAX \/ nxt < I64_MIN THEN [ok |-> FALSE, n |-> 0]
            ELSE FromStrDigits(Tail(digits), nxt, positive)

\* Mutant of parse_i64: str::parse::<u64>, which takes '+' but no '-'.
parse_u64(src) ==
    IF src = <<>> THEN [ok |-> FALSE, n |-> 0]
    ELSE IF Head(src) = "+" /\ Tail(src) = <<>> THEN [ok |-> FALSE, n |-> 0]
    ELSE IF Head(src) = "+" THEN FromStrDigits(Tail(src), 0, TRUE)
    ELSE FromStrDigits(src, 0, TRUE)

\* str::parse::<i64>: an optional sign, '+' or '-', then the digit loop.
parse_i64(src) ==
    IF src = <<>> THEN [ok |-> FALSE, n |-> 0]
    ELSE IF Head(src) \in {"+", "-"} /\ Tail(src) = <<>> THEN [ok |-> FALSE, n |-> 0]
    ELSE IF Head(src) = "+" THEN FromStrDigits(Tail(src), 0, TRUE)
    ELSE IF Head(src) = "-" THEN FromStrDigits(Tail(src), 0, FALSE)
    ELSE FromStrDigits(src, 0, TRUE)

\* Ok(<<>>, n) or Failure(InvalidPrefixNumber)
bytes_to_i64(bytes) ==
    IF ~from_utf8_ok(bytes) THEN Failure(InvalidPrefixNumber)
    ELSE LET r == parse_i64(bytes) IN
         IF ~r.ok THEN Failure(InvalidPrefixNumber)
         ELSE Ok(<<>>, r.n)

\* ------------------------------------------------------------------------
\* The parser
\* ------------------------------------------------------------------------

parse_integer(input) ==
    LET a == tag(<<"i">>, input) IN
    IF a.tag # "Ok" THEN a ELSE
    LET b == is_not({"e"}, a.rest) IN
    IF b.tag # "Ok" THEN b ELSE
    LET c == tag(<<"e">>, b.rest) IN
    IF c.tag # "Ok" THEN c ELSE
    LET n == bytes_to_i64(b.value) IN
    IF n.tag # "Ok" THEN n
    ELSE Ok(c.rest, Integer(n.value))

\* Mutant of parse_byte_string: the negative length is reported as a
\* recoverable Error instead of a Failure.
parse_byte_string_recoverable(input) ==
    LET a == is_not({":", "i", "l", "d", "e"}, input) IN
    IF a.tag # "Ok" THEN a ELSE
    LET b == tag(<<":">>, a.rest) IN
    IF b.tag # "Ok" THEN b ELSE
    LET len == bytes_to_i64(a.value) IN
    IF len.tag # "Ok" THEN len
    ELSE IF len.value >= 0
    THEN LET c == take(len.value, b.rest) IN
         IF c.tag # "Ok" THEN c
         ELSE Ok(c.rest, ByteString(c.value))
    ELSE Error(InvalidByteString)

parse_byte_string(input) ==
    LET a == is_not({":", "i", "l", "d", "e"}, input) IN
    IF a.tag # "Ok" THEN a ELSE
    LET b == tag(<<":">>, a.rest) IN
    IF b.tag # "Ok" THEN b ELSE
    LET len == bytes_to_i64(a.value) IN
    IF len.tag # "Ok" THEN len
    ELSE IF len.value >= 0
    THEN LET c == take(len.value, b.rest) IN
         IF c.tag # "Ok" THEN c
         ELSE Ok(c.rest, ByteString(c.value))
    ELSE Failure(InvalidByteString)

\* Index of key k in the entries kv, 0 when absent (IndexMap::get_index_of).
RECURSIVE IndexOf(_, _, _)
IndexOf(kv, k, i) ==
    IF i > Len(kv) THEN 0
    ELSE IF kv[i][1] = k THEN i
    ELSE IndexOf(kv, k, i + 1)

\* Mutant of insert: an existing key is removed and the entry appended.
insert_displace(kv, k, v) ==
    LET i == IndexOf(kv, k, 1) IN
    IF i = 0 THEN Append(kv, <<k, v>>)
    ELSE Append(SubSeq(kv, 1, i - 1) \o SubSeq(kv, i + 1, Len(kv)), <<k, v>>)

\* IndexMap::insert: an existing key keeps its place and gets the new value;
\* a new key is appended.
insert(kv, k, v) ==
    LET i == IndexOf(kv, k, 1) IN
    IF i = 0 THEN Append(kv, <<k, v>>)
    ELSE [kv EXCEPT ![i] = <<k, v>>]

RECURSIVE parse(_)
RECURSIVE parse_list(_)
RECURSIVE parse_dict(_)
RECURSIVE many0_parse(_, _)
RECURSIVE fold_many0_kv(_, _)

\* One turn of many0(parse) on the element parser's result r: an Error ends
\* the loop with what was collected, a Failure is returned as it is, an
\* element that consumed nothing is an Error, and any other element is
\* pushed and the loop goes on behind it.
many0_turn(r, input, acc) ==
    IF r.tag = "Error" THEN Ok(input, acc)
    ELSE IF r.tag = "Failure" THEN r
    ELSE IF r.rest = input THEN Error(Nom(input, "Many0"))
    ELSE many0_parse(r.rest, Append(acc, r.value))

\* many0(parse): Ok(rest, <<elements>>)
many0_parse(input, acc) == many0_turn(parse(input), input, acc)

\* tuple((parse_byte_string, parse)) on the key parser's result k: the value
\* is parsed behind the key (v is its result); Ok(rest, <<key, value>>).
tuple_kv_value(key, v) ==
    IF v.tag # "Ok" THEN v ELSE Ok(v.rest, <<key, v.value>>)

tuple_kv(k) ==
    IF k.tag # "Ok" THEN k
    ELSE tuple_kv_value(k.value, parse(k.rest))

\* One turn of fold_many0 on the pair parser's result r, as in many0; the
\* fold closure inserts the pair under a ByteString key.
fold_many0_turn(r, input, acc) ==
    IF r.tag = "Error" THEN Ok(input, acc)
    ELSE IF r.tag = "Failure" THEN r
    ELSE IF r.rest = input THEN Error(Nom(input, "Many0"))
    ELSE fold_many0_kv(r.rest,
             IF r.value[1].t = "ByteString"
             THEN insert(acc, r.value[1].bs, r.value[2])
             ELSE acc)

\* fold_many0(tuple((parse_byte_string, parse)), IndexMap::new(), insert)
fold_many0_kv(input, acc) ==
    fold_many0_turn(tuple_kv(parse_byte_string(input)), input, acc)

\* delimited(open, body, tag("e")) from the body's result on: the closing
\* tag (c is its result) is matched behind the body, whose output is the
\* output of the whole.
closed(c, value) == IF c.tag # "Ok" THEN c ELSE Ok(c.rest, value)

closing_tag(body) ==
    IF body.tag # "Ok" THEN body
    ELSE closed(tag(<<"e">>, body.rest), body.value)

\* delimited(tag("l"), many0(parse), tag("e")) behind the opening tag's
\* result a.
list_body(a) ==
    IF a.tag # "Ok" THEN a ELSE closing_tag(many0_parse(a.rest, <<>>))

\* delimited(tag("d"), kv_parser, tag("e")) behind the opening tag's result a.
dict_body(a) ==
    IF a.tag # "Ok" THEN a ELSE closing_tag(fold_many0_kv(a.rest, <<>>))

\* Ok((input, BencodeValue::List(xs))) / Ok((input, BencodeValue::Dict(dict)))
wrap(r, variant) ==
    IF r.tag # "Ok" THEN r
    ELSE Ok(r.rest, IF variant = "List" THEN List(r.value) ELSE Dict(r.value))

parse_list(input) == wrap(list_body(tag(<<"l">>, input)), "List")

parse_dict(input) == wrap(dict_body(tag(<<"d">>, input)), "Dict")

\* alt: the first result that is not an Error; when all are Errors, the last.
alt4(d, l, s, i) ==
    IF d.tag # "Error" THEN d
    ELSE IF l.tag # "Error" THEN l
    ELSE IF s.tag # "Error" THEN s
    ELSE i

\* alt((parse_dict, parse_list, parse_byte_string, parse_integer))
parse(input) ==
    alt4(parse_dict(input), parse_list(input),
         parse_byte_string(input), parse_integer(input))

from_bytes(input) == parse(input)

\* ------------------------------------------------------------------------
\* The serializer
\* ------------------------------------------------------------------------

\* Decimal digits of a natural number (usize / u64 Display).
RECURSIVE NatToString(_)
NatToString(n) ==
    IF n < 10 THEN <<DigitByte(n)>>
    ELSE Append(NatToString(n \div 10), DigitByte(n % 10))

\* Mutant of to_string: the sign is lost.
to_string_abs(num) ==
    IF num < 0 THEN NatToString(0 - num) ELSE NatToString(num)

\* i64::to_string
to_string(num) ==
    IF num < 0 THEN <<"-">> \o NatToString(0 - num) ELSE NatToString(num)

RECURSIVE to_bytes(_)
RECURSIVE to_bytes_list(_, _)
RECURSIVE to_bytes_dict(_, _)

to_bytes_list(xs, i) ==
    IF i > Len(xs) THEN <<>>
    ELSE to_bytes(xs[i]) \o to_bytes_list(xs, i + 1)

to_bytes_dict(kv, i) ==
    IF i > Len(kv) THEN <<>>
    ELSE to_bytes(ByteString(kv[i][1])) \o to_bytes(kv[i][2])
             \o to_bytes_dict(kv, i + 1)

to_bytes(value) ==
    CASE value.t = "Integer" -> <<"i">> \o to_string(value.n) \o <<"e">>
      [] value.t = "ByteString" ->
             NatToString(Len(value.bs)) \o <<":">> \o value.bs
      [] value.t = "List" -> <<"l">> \o to_bytes_list(value.xs, 1) \o <<"e">>
      [] value.t = "Dict" -> <<"d">> \o to_bytes_dict(value.kv, 1) \o <<"e">>

\* ------------------------------------------------------------------------
\* The metadata extractor (torrent.rs)
\* ------------------------------------------------------------------------

ANNOUNCE_KEY == <<"a", "n", "n", "o", "u", "n", "c", "e">>
INFO_KEY == <<"i", "n", "f", "o">>
NAME_KEY == <<"n", "a", "m", "e">>
LENGTH_KEY == <<"l", "e", "n", "g", "t", "h">>
PIECE_LENGTH_KEY == <<"p", "i", "e", "c", "e", " ", "l", "e", "n", "g", "t", "h">>
PIECES_KEY == <<"p", "i", "e", "c", "e", "s">>

\* Length in bytes of one chunk yielded by Torrent::pieces.
PieceChunk == 20

\* nom's FindSubstring for byte slices: does sub occur in bytes?
find_substring(bytes, sub) ==
    \E i \in 1..(Len(bytes) - Len(sub) + 1) :
        SubSeq(bytes, i, i + Len(sub) - 1) = sub

\* IndexMap::get behind ok_or(InvalidInput)
get_key(kv, key) ==
    LET i == IndexOf(kv, key, 1) IN
    IF i = 0 THEN [found |-> FALSE, value |-> Integer(0)]
    ELSE [found |-> TRUE, value |-> kv[i][2]]

\* The SHA-1 digest is kept symbolic: the digest of a byte sequence is the
\* pair of the algorithm's name and its input.
build_info_hash(info_dict) == <<"sha1", info_dict>>

InvalidInput == [tag |-> "Err", err |-> "InvalidInput"]
\* Option::unwrap / Result::unwrap on an Err: the thread panics.
Panic == [tag |-> "Panic", err |-> "unwrap"]

HasVariant(r, variant) == r.found /\ r.value.t = variant

Torrent_from_bytes(bytes) ==
    LET r == from_bytes(bytes) IN
    IF r.tag # "Ok" THEN InvalidInput
    ELSE IF ~find_substring(bytes, <<"4", ":", "i", "n", "f", "o">>) THEN InvalidInput
    ELSE IF r.value.t # "Dict" THEN InvalidInput
    ELSE LET dict == r.value.kv
             announce == get_key(dict, ANNOUNCE_KEY)
             wrapped_info_dict == get_key(dict, INFO_KEY)
         IN
         IF ~HasVariant(announce, "ByteString") THEN InvalidInput
         ELSE IF ~HasVariant(wrapped_info_dict, "Dict") THEN InvalidInput
         ELSE LET info_dict == wrapped_info_dict.value.kv
                  name == get_key(info_dict, NAME_KEY)
                  length == get_key(info_dict, LENGTH_KEY)
                  piece_length == get_key(info_dict, PIECE_LENGTH_KEY)
                  pieces == get_key(info_dict, PIECES_KEY)
              IN
              IF ~HasVariant(name, "ByteString") THEN InvalidInput
              ELSE IF ~HasVariant(length, "Integer") THEN InvalidInput
              ELSE IF ~HasVariant(piece_length, "Integer") THEN InvalidInput
              ELSE IF ~HasVariant(pieces, "ByteString") THEN InvalidInput
              ELSE IF ~from_utf8_ok(announce.value.bs) THEN Panic
              ELSE IF ~from_utf8_ok(name.value.bs) THEN Panic
              ELSE [tag |-> "Ok",
                    torrent |-> [announce |-> announce.value.bs,
                                 name |-> name.value.bs,
                                 length |-> length.value.n,
                                 piece_length |-> piece_length.value.n,
                                 info_hash |-> build_info_hash(to_bytes(wrapped_info_dict.value)),
                                 pieces |-> pieces.value.bs]]

\* slice::chunks(n): consecutive chunks of n bytes, the last one holding
\* whatever is left.
RECURSIVE chunks(_, _)
chunks(s, n) ==
    IF Len(s) = 0 THEN <<>>
    ELSE IF Len(s) <= n THEN <<s>>
    ELSE <<Take(s, n)>> \o chunks(Drop(s, n), n)

\* Mutant of Torrent_pieces: slice::chunks_exact, which leaves out a last
\* chunk that is not full.
RECURSIVE chunks_exact(_, _)
chunks_exact(s, n) ==
    IF Len(s) < n THEN <<>>
    ELSE <<Take(s, n)>> \o chunks_exact(Drop(s, n), n)

Torrent_pieces_exact(torrent) == chunks_exact(torrent.pieces, PieceChunk)

Torrent_pieces(torrent) == chunks(torrent.pieces, PieceChunk)

\* ------------------------------------------------------------------------
\* Inputs
\* ------------------------------------------------------------------------

\* Bytes of the raw inputs: every byte the grammar gives a meaning to, the
\* two signs, two digits and one data byte.
Alphabet == {"d", "l", "i", "e", ":", "-", "+", "0", "1", "a"}

RawInputs == UNION {[1..n -> Alphabet] : n \in 0..MaxLen}

\* Bytes appended behind a complete value.
Trails == {<<"e">>, <<"1">>, <<":">>, <<"i", "0", "e">>}

\* BencodeValue trees by number of nodes.
LeafValues ==
    {Integer(n) : n \in {I64_MIN, -1, 0, I64_MAX}}
        \cup {ByteString(bs) : bs \in {<<>>, <<"e">>, <<"1", ":">>}}

DictKeys == {<<>>, <<"a">>, <<"i">>}

RECURSIVE ValuesOfSize(_)
RECURSIVE SeqsOfSize(_)

\* Sequences of values with m nodes in total.
SeqsOfSize(m) ==
    IF m = 0 THEN {<<>>}
    ELSE UNION {{<<h>> \o t : h \in ValuesOfSize(k), t \in SeqsOfSize(m - k)}
                    : k \in 1..m}

\* Entry lists with unique keys over the values xs.
EntriesOver(xs) ==
    {[i \in 1..Len(xs) |-> <<ks[i], xs[i]>>] :
        ks \in {f \in [1..Len(xs) -> DictKeys] :
                    \A i, j \in 1..Len(xs) : i # j => f[i] # f[j]}}

ValuesOfSize(n) ==
    (IF n = 1 THEN LeafValues ELSE {})
        \cup {List(xs) : xs \in SeqsOfSize(n - 1)}
        \cup UNION {{Dict(kv) : kv \in EntriesOver(xs)} : xs \in SeqsOfSize(n - 1)}

Values == UNION {ValuesOfSize(n) : n \in 1..MaxNodes}

\* Dicts on the wire whose entries may repeat a key.
EntryValues == {Integer(0), Integer(1), ByteString(<<>>)}
EntryKeys == {<<"a">>, <<"b">>}
MaxEntries == 3
EntryLists ==
    UNION {[1..n -> {<<k, v>> : k \in EntryKeys, v \in EntryValues}]
               : n \in 2..MaxEntries}

RECURSIVE EntriesWire(_, _)
EntriesWire(es, i) ==
    IF i > Len(es) THEN <<>>
    ELSE to_bytes(ByteString(es[i][1])) \o to_bytes(es[i][2])
             \o EntriesWire(es, i + 1)

DictWire(es) == <<"d">> \o EntriesWire(es, 1) \o <<"e">>

\* A byte-string token at a value or key position behind open containers:
\* open is everything in front of the token, close what would close the
\* containers again.  A value position is inside a list (first or later
\* element) or behind a dict key; a key position is right behind a dict's
\* 'd', the value of that key and the 'e' being part of close.
ValueFrames ==
    {[open |-> <<"l">>, close |-> <<"e">>],
     [open |-> <<"l", "i", "0", "e">>, close |-> <<"e">>],
     [open |-> <<"d", "1", ":", "a">>, close |-> <<"e">>]}

KeyFrame == [open |-> <<"d">>, close |-> <<"i", "0", "e", "e">>]

Nest(c, f) == [open |-> c.open \o f.open, close |-> f.close \o c.close]

RECURSIVE ValueContexts(_)
ValueContexts(depth) ==
    IF depth = 0 THEN {[open |-> <<>>, close |-> <<>>]}
    ELSE ValueContexts(depth - 1)
           \cup {Nest(c, f) : c \in ValueContexts(depth - 1), f \in ValueFrames}

Contexts(depth) ==
    ValueContexts(depth)
        \cup (IF depth = 0 THEN {}
              ELSE {Nest(c, KeyFrame) : c \in ValueContexts(depth - 1)})

\* The token and what follows it, by kind.
Probes(c) ==
    {[kind |-> "negative", tok |-> t, after |-> a] :
        t \in {<<"-", "1", ":">>, <<"-", "2", ":">>},
        a \in {<<>>, c.close, <<"a">> \o c.close}}
    \cup {[kind |-> "zero", tok |-> <<"0", ":">>, after |-> c.close]}
    \cup {[kind |-> "whole", tok |-> <<"1", ":", "a">>, after |-> c.close]}
    \cup UNION {{[kind |-> "truncated", tok |-> NatToString(n) \o <<":">>, after |-> a] :
                    a \in {x \in {<<>>, c.close} : Len(x) < n}} : n \in {1, 9}}

\* Metadata documents, field by field as they stand on the wire; <<>> is
\* an absent field.
RECURSIVE PatternBytes(_)
PatternBytes(n) ==
    IF n = 0 THEN <<>>
    ELSE Append(PatternBytes(n - 1), <<"a", "b", "c">>[(n % 3) + 1])

KeyWire(k) == to_bytes(ByteString(k))

AnnounceFields ==
    {<<>>,
     KeyWire(ANNOUNCE_KEY) \o <<"1", ":", "a">>,
     KeyWire(ANNOUNCE_KEY) \o <<"1", ":", "xFF">>,
     KeyWire(ANNOUNCE_KEY) \o <<"i", "0", "e">>}
NameFields ==
    {<<>>,
     KeyWire(NAME_KEY) \o <<"1", ":", "a">>,
     KeyWire(NAME_KEY) \o <<"1", ":", "xFF">>,
     KeyWire(NAME_KEY) \o <<"l", "e">>}
LengthFields ==
    {<<>>,
     KeyWire(LENGTH_KEY) \o <<"i", "4", "0", "e">>,
     KeyWire(LENGTH_KEY) \o <<"i", "0", "4", "0", "e">>,
     KeyWire(LENGTH_KEY) \o <<"i", "1", "e">> \o KeyWire(LENGTH_KEY) \o <<"i", "2", "e">>,
     KeyWire(LENGTH_KEY) \o <<"0", ":">>}
PieceLengthFields ==
    {<<>>,
     KeyWire(PIECE_LENGTH_KEY) \o <<"i", "2", "0", "e">>,
     KeyWire(PIECE_LENGTH_KEY) \o <<"0", ":">>}
PiecesLens == {0, 1, PieceChunk, PieceChunk + 1, 2 * PieceChunk}
PiecesPayloads == {PatternBytes(n) : n \in PiecesLens}

NoPieces == <<"none">>

\* [info |-> the bytes of the info value, pieces |-> the payload of its
\* "pieces" byte string or NoPieces]
InfoValues ==
    {[info |-> <<"i", "0", "e">>, pieces |-> NoPieces]}
    \cup {[info |-> <<"d">> \o le \o na \o pl \o <<"e">>, pieces |-> NoPieces] :
            le \in LengthFields, na \in NameFields, pl \in PieceLengthFields}
    \cup {[info |-> <<"d">> \o le \o na \o pl \o KeyWire(PIECES_KEY) \o pv \o <<"e">>,
           pieces |-> NoPieces] :
            le \in LengthFields, na \in NameFields, pl \in PieceLengthFields,
            pv \in {<<"i", "0", "e">>}}
    \cup {[info |-> <<"d">> \o le \o na \o pl \o KeyWire(PIECES_KEY)
                        \o to_bytes(ByteString(pp)) \o <<"e">>,
           pieces |-> pp] :
            le \in LengthFields, na \in NameFields, pl \in PieceLengthFields,
            pp \in PiecesPayloads}

NoInfo == <<"none">>

\* [bytes |-> the document, info |-> the bytes of its info value or NoInfo,
\*  pieces |-> as above]
Documents ==
    {[bytes |-> <<"d">> \o an \o <<"e">>, info |-> NoInfo, pieces |-> NoPieces] :
        an \in AnnounceFields}
    \cup {[bytes |-> <<"d">> \o an \o KeyWire(INFO_KEY) \o iv.info \o <<"e">>,
           info |-> iv.info, pieces |-> iv.pieces] :
            an \in AnnounceFields, iv \in InfoValues}

\* ------------------------------------------------------------------------
\* The state machine: one input, and the calls made on it
\* ------------------------------------------------------------------------

VARIABLES
    pc,        \* which call has been made last
    src,       \* how the input was put together
    bytes,     \* the input byte sequence
    parsed,    \* result of bencode::from_bytes(bytes)
    reser,     \* to_bytes of the parsed value
    trail,     \* bytes appended behind the input
    parsedT,   \* result of bencode::from_bytes(bytes ++ trail)
    torrent,   \* result of Torrent::from_bytes(bytes)
    pieces     \* the chunks yielded by Torrent::pieces

vars == <<pc, src, bytes, parsed, reser, trail, parsedT, torrent, pieces>>

NoResult == [tag |-> "None"]

NoSrc ==
    [kind |-> "raw", value |-> Integer(0), open |-> <<>>, tok |-> <<>>,
     tokKind |-> "-", after |-> <<>>, entries |-> <<>>, info |-> NoInfo,
     pieces |-> NoPieces]

InitRest ==
    /\ parsed = NoResult
    /\ reser = <<>>
    /\ trail = <<>>
    /\ parsedT = NoResult
    /\ torrent = NoResult
    /\ pieces = <<>>

InitValue ==
    /\ pc = "value"
    /\ \E v \in Values : src = [NoSrc EXCEPT !.kind = "value", !.value = v]
    /\ bytes = <<>>

InitRaw ==
    /\ pc = "bytes"
    /\ src = NoSrc
    /\ bytes \in RawInputs

InitEntries ==
    /\ pc = "bytes"
    /\ \E es \in EntryLists :
        /\ src = [NoSrc EXCEPT !.kind = "entries", !.entries = es]
        /\ bytes = DictWire(es)

InitProbe ==
    /\ pc = "bytes"
    /\ \E c \in Contexts(MaxCtxDepth) : \E p \in Probes(c) :
        /\ src = [NoSrc EXCEPT !.kind = "probe", !.open = c.open, !.tok = p.tok,
                               !.tokKind = p.kind, !.after = p.after]
        /\ bytes = c.open \o p.tok \o p.after

InitDocument ==
    /\ pc = "bytes"
    /\ \E d \in Documents :
        /\ src = [NoSrc EXCEPT !.kind = "document", !.info = d.info,
                               !.pieces = d.pieces]
        /\ bytes = d.bytes

Init ==
    /\ InitRest
    /\ (InitValue \/ InitRaw \/ InitEntries \/ InitProbe \/ InitDocument)

\* to_bytes(&value)
Serialize ==
    /\ pc = "value"
    /\ bytes' = to_bytes(src.value)
    /\ pc' = "bytes"
    /\ UNCHANGED <<src, parsed, reser, trail, parsedT, torrent, pieces>>

\* bencode::from_bytes(bytes)
Parse ==
    /\ pc = "bytes"
    /\ parsed' = from_bytes(bytes)
    /\ pc' = "parsed"
    /\ UNCHANGED <<src, bytes, reser, trail, parsedT, torrent, pieces>>

\* to_bytes of the value just parsed
Reserialize ==
    /\ pc = "parsed"
    /\ parsed.tag = "Ok"
    /\ reser' = to_bytes(parsed.value)
    /\ pc' = "reser"
    /\ UNCHANGED <<src, bytes, parsed, trail, parsedT, torrent, pieces>>

\* bencode::from_bytes on the same input with bytes behind it
ParseTrailing ==
    /\ pc = "parsed"
    /\ \E t \in Trails :
        /\ trail' = t
        /\ parsedT' = from_bytes(bytes \o t)
    /\ pc' = "trailed"
    /\ UNCHANGED <<src, bytes, parsed, reser, torrent, pieces>>

\* Torrent::from_bytes(bytes)
Extract ==
    /\ pc = "bytes"
    /\ torrent' = Torrent_from_bytes(bytes)
    /\ pc' = "torrent"
    /\ UNCHANGED <<src, bytes, parsed, reser, trail, parsedT, pieces>>

\* torrent.pieces(), collected
Pieces ==
    /\ pc = "torrent"
    /\ torrent.tag = "Ok"
    /\ pieces' = Torrent_pieces(torrent.torrent)
    /\ pc' = "pieces"
    /\ UNCHANGED <<src, bytes, parsed, reser, trail, parsedT, torrent>>

Next ==
    \/ Serialize
    \/ Parse
    \/ Reserialize
    \/ ParseTrailing
    \/ Extract
    \/ Pieces

Spec == Init /\ [][Next]_vars

\* ------------------------------------------------------------------------
\* The wire grammar, as a recogniser independent of the parser
\*
\*   value      ::= dict | list | bytestring | integer
\*   integer    ::= "i" "-"? digit+ "e"
\*   bytestring ::= length ":" <length bytes>
\*   length     ::= digit+
\*   list       ::= "l" value* "e"
\*   dict       ::= "d" (bytestring value)* "e"
\*
\* With canon = TRUE the numerals must moreover be the ones i64::to_string
\* and usize::to_string print: no leading zero, no "-0".
\* ------------------------------------------------------------------------

AllDigits(s) == Len(s) >= 1 /\ \A i \in 1..Len(s) : s[i] \in DigitBytes

IsLength(s, canon) ==
    AllDigits(s) /\ (canon => (Len(s) = 1 \/ s[1] # "0"))

IsIntBody(s, canon) ==
    IF Len(s) >= 1 /\ s[1] = "-"
    THEN AllDigits(Tail(s)) /\ (canon => s[2] # "0")
    ELSE IsLength(s, canon)

RECURSIVE DigitsValue(_, _)
DigitsValue(s, acc) ==
    IF s = <<>> THEN acc ELSE DigitsValue(Tail(s), acc * 10 + DigitValue(Head(s)))

\* Number of leading bytes of input that derive `integer`, -1 when none do.
GrammarInteger(input, canon) ==
    LET p == FindToken({"e"}, input, 1) IN
    IF Len(input) >= 1 /\ input[1] = "i" /\ p > 0
           /\ IsIntBody(SubSeq(input, 2, p - 1), canon)
    THEN p ELSE -1

\* Number of leading bytes of input that derive `bytestring`, -1 when none do.
GrammarByteString(input, canon) ==
    LET p == FindToken({":"}, input, 1) IN
    IF p > 0 /\ IsLength(Take(input, p - 1), canon)
    THEN LET n == DigitsValue(Take(input, p - 1), 0) IN
         IF p + n <= Len(input) THEN p + n ELSE -1
    ELSE -1

RECURSIVE GrammarValue(_, _)
RECURSIVE GrammarItems(_, _, _)

\* Number of leading bytes of input that derive value* "e" (list body) or
\* (bytestring value)* "e" (dict body), -1 when none do.
GrammarItems(input, canon, isDict) ==
    IF input = <<>> THEN -1
    ELSE IF Head(input) = "e" THEN 1
    ELSE LET k == IF isDict THEN GrammarByteString(input, canon) ELSE 0 IN
         IF k < 0 THEN -1 ELSE
         LET v == GrammarValue(Drop(input, k), canon) IN
         IF v < 0 THEN -1 ELSE
         LET r == GrammarItems(Drop(input, k + v), canon, isDict) IN
         IF r < 0 THEN -1 ELSE k + v + r

\* Number of leading bytes of input that derive `value`, -1 when none do.
GrammarValue(input, canon) ==
    IF input = <<>> THEN -1
    ELSE IF Head(input) = "d"
    THEN LET r == GrammarItems(Tail(input), canon, TRUE) IN
         IF r < 0 THEN -1 ELSE 1 + r
    ELSE IF Head(input) = "l"
    THEN LET r == GrammarItems(Tail(input), canon, FALSE) IN
         IF r < 0 THEN -1 ELSE 1 + r
    ELSE IF Head(input) = "i" THEN GrammarInteger(input, canon)
    ELSE GrammarByteString(input, canon)

\* Some dict of the input holds the same key twice.  Only the entry lists
\* and the documents with the repeated "length" field are long enough for it.
RepeatedLength ==
    KeyWire(LENGTH_KEY) \o <<"i", "1", "e">> \o KeyWire(LENGTH_KEY)

InputRepeatsKey ==
    \/ /\ src.kind = "entries"
       /\ \E i, j \in 1..Len(src.entries) :
            i # j /\ src.entries[i][1] = src.entries[j][1]
    \/ /\ src.kind = "document"
       /\ find_substring(bytes, RepeatedLength)

ParseDone == pc \in {"parsed", "reser", "trailed"}

\* ------------------------------------------------------------------------
\* Properties
\* ------------------------------------------------------------------------

\* C1: value round trip.  Parsing the serialization of a value v (integers
\* up to both ends of the integer range, any byte strings, lists, dicts with
\* unique keys) returns Ok with no bytes remaining and a value equal to v,
\* dict entries in the same order.
C1_ValueRoundTrip ==
    (src.kind = "value" /\ ParseDone) => parsed = Ok(<<>>, src.value)

C1_Witness ==
    /\ pc = "parsed"
    /\ src.kind = "value"
    /\ src.value.t = "Dict"
    /\ Len(src.value.kv) = 2
    /\ src.value.kv[1][1] = <<"i">>
    /\ src.value.kv[1][2] = Integer(I64_MIN)
    /\ parsed.tag = "Ok"
    /\ parsed.value = src.value

\* C2 as claimed: for every byte sequence that from_bytes accepts with no
\* remaining bytes and in which no dict holds the same key twice,
\* to_bytes(from_bytes(b).value) = b.
C2_ByteIdentityAnyAccepted ==
    (pc = "reser" /\ parsed.rest = <<>> /\ ~InputRepeatsKey) => reser = bytes

\* C2 amended: the byte identity holds for every accepted byte sequence with
\* no remaining bytes and no repeated dict key whose integer bodies and
\* length prefixes are canonical decimal numerals (no '+', no leading zero,
\* no "-0").
C2_ByteIdentityCanonical ==
    (pc = "reser" /\ parsed.rest = <<>> /\ ~InputRepeatsKey
        /\ GrammarValue(bytes, TRUE) = Len(bytes))
    => reser = bytes

C2_Witness ==
    /\ pc = "reser"
    /\ src.kind = "raw"
    /\ bytes = <<"i", "-", "1", "e">>
    /\ reser = bytes

\* C3: info-hash input fidelity.  For every document Torrent::from_bytes
\* accepts, info_hash is the digest of the slice of the input that encoded
\* the value of the top-level "info" key.
C3_InfoHashOfOriginalBytes ==
    (pc \in {"torrent", "pieces"} /\ src.kind = "document" /\ torrent.tag = "Ok")
    => torrent.torrent.info_hash = build_info_hash(src.info)

\* C4: extractor error totality.  Torrent::from_bytes returns a Torrent or
\* the error InvalidInput on every input, and never panics.
C4_OkOrInvalidInput ==
    (pc \in {"torrent", "pieces"}) => (torrent.tag = "Ok" \/ torrent = InvalidInput)

\* C5: trailing bytes.  When from_bytes(b) is Ok with nothing remaining and
\* value v, from_bytes(b ++ t) is Ok with remaining t and the same value v.
C5_TrailingBytesUntouched ==
    (pc = "trailed" /\ parsed.tag = "Ok" /\ parsed.rest = <<>>)
    => parsedT = Ok(trail, parsed.value)

C5_Witness ==
    /\ pc = "trailed"
    /\ parsed.tag = "Ok"
    /\ parsed.rest = <<>>
    /\ parsed.value.t = "List"
    /\ Len(parsed.value.xs) = 1
    /\ trail = <<"e">>
    /\ parsedT = Ok(trail, parsed.value)

\* C6: grammar strictness.  from_bytes returns Ok only if the bytes it
\* consumed derive `value` in the wire grammar.
C6_OkOnlyOnGrammar ==
    (ParseDone /\ parsed.tag = "Ok")
    => GrammarValue(bytes, FALSE) = Len(bytes) - Len(parsed.rest)

\* C7: a negative length is fatal at any depth.  When the first malformed
\* token is a byte-string length prefix that parses to a negative number
\* (top level, list element, dict key or dict value, at any nesting), the
\* call returns the Failure InvalidByteString; a length of zero is accepted
\* and yields an empty ByteString.
C7_NegativeLengthFatal ==
    (ParseDone /\ src.kind = "probe")
    => /\ src.tokKind = "negative" => parsed = Failure(InvalidByteString)
       /\ src.tokKind = "zero" =>
            /\ parsed.tag = "Ok"
            /\ parsed.rest = <<>>
            /\ src.open = <<>> => parsed.value = ByteString(<<>>)
            /\ pc = "reser" => reser = bytes

C7_Witness ==
    /\ pc = "parsed"
    /\ src.kind = "probe"
    /\ src.tokKind = "negative"
    /\ src.open = <<"l", "i", "0", "e", "d", "1", ":", "a">>
    /\ src.after = <<"e", "e">>
    /\ parsed = Failure(InvalidByteString)

\* C8: truncated byte string.  When from_bytes meets a byte-string token
\* whose declared length exceeds the bytes remaining after the ':', the call
\* fails with the error kind InvalidByteString.
C8_TruncatedIsInvalidByteString ==
    (ParseDone /\ src.kind = "probe" /\ src.tokKind = "truncated")
    => (parsed.tag # "Ok" /\ parsed.err.name = "InvalidByteString")

\* Entries of es that are the last (first) occurrence of their key.
IsLastOccurrence(es, i) == \A j \in (i + 1)..Len(es) : es[j][1] # es[i][1]
IsFirstOccurrence(es, i) == \A j \in 1..(i - 1) : es[j][1] # es[i][1]
LastValueOf(es, k) ==
    es[CHOOSE i \in 1..Len(es) : es[i][1] = k /\ IsLastOccurrence(es, i)][2]

RECURSIVE KeepLast(_, _)
KeepLast(es, i) ==
    IF i > Len(es) THEN <<>>
    ELSE (IF IsLastOccurrence(es, i) THEN <<es[i]>> ELSE <<>>) \o KeepLast(es, i + 1)

RECURSIVE KeepFirstWithLastValue(_, _)
KeepFirstWithLastValue(es, i) ==
    IF i > Len(es) THEN <<>>
    ELSE (IF IsFirstOccurrence(es, i)
          THEN << <<es[i][1], LastValueOf(es, es[i][1])>> >> ELSE <<>>)
             \o KeepFirstWithLastValue(es, i + 1)

\* C9 as claimed: a key that occurs more than once in a dict's input has
\* exactly one entry in the parsed Dict, holding the value of the last
\* occurrence at the position of the last occurrence.
C9_DuplicateTakesLaterPosition ==
    (ParseDone /\ src.kind = "entries")
    => parsed = Ok(<<>>, Dict(KeepLast(src.entries, 1)))

\* C9 amended: the entry holds the value of the last occurrence and stays
\* at the position of the first occurrence.
C9_DuplicateKeepsFirstPosition ==
    (ParseDone /\ src.kind = "entries")
    => parsed = Ok(<<>>, Dict(KeepFirstWithLastValue(src.entries, 1)))

C9_Witness ==
    /\ pc = "parsed"
    /\ src.kind = "entries"
    /\ src.entries = << <<<<"a">>, Integer(0)>>, <<<<"b">>, Integer(0)>>,
                        <<<<"a">>, Integer(1)>> >>
    /\ parsed.tag = "Ok"
    /\ parsed.value = Dict(<< <<<<"a">>, Integer(1)>>, <<<<"b">>, Integer(0)>> >>)

RECURSIVE Concat(_, _)
Concat(ss, i) == IF i > Len(ss) THEN <<>> ELSE ss[i] \o Concat(ss, i + 1)

\* C10 as claimed: pieces() yields chunks of exactly 20 bytes each whose
\* concatenation is the "pieces" byte string of the info dict.
C10_EveryChunkIs20Bytes ==
    (pc = "pieces" /\ src.kind = "document")
    => /\ \A i \in 1..Len(pieces) : Len(pieces[i]) = PieceChunk
       /\ Concat(pieces, 1) = src.pieces

\* C10 amended: every chunk but the last is exactly 20 bytes long, the last
\* holds 1 to 20 bytes, and the concatenation is the "pieces" byte string.
C10_ChunksOf20ButLast ==
    (pc = "pieces" /\ src.kind = "document")
    => /\ \A i \in 1..(Len(pieces) - 1) : Len(pieces[i]) = PieceChunk
       /\ Len(pieces) > 0 =>
            /\ Len(pieces[Len(pieces)]) >= 1
            /\ Len(pieces[Len(pieces)]) <= PieceChunk
       /\ Concat(pieces, 1) = src.pieces

C10_Witness ==
    /\ pc = "pieces"
    /\ src.kind = "document"
    /\ Len(src.pieces) = PieceChunk + 1
    /\ Len(pieces) = 2
    /\ Len(pieces[1]) = PieceChunk
    /\ Len(pieces[2]) = 1

====
